---- MODULE Spec2Model ----
(***************************************************************************)
(* Verification model of the ZMK single-LED status widget (src/widget.c).  *)
(*                                                                         *)
(* Threads and contexts of the program:                                    *)
(*   - led_process_thread: the only consumer of led_msgq; owns             *)
(*     led_current_patterns, led_default_color and the LED itself;         *)
(*   - led_init_thread: takes the boot snapshot, then sets initialized;    *)
(*   - the event listeners (USB power, connectivity, battery);             *)
(*   - the delayable work item that runs indicate_connectivity_internal.   *)
(* Every handler is one action.  The two threads are cut at the points     *)
(* where they block (k_msgq_get, k_sleep).                                 *)
(***************************************************************************)
EXTENDS Integers, Sequences, FiniteSets, TLC

(***************************************************************************)
(* Bounds of the model.                                                    *)
(***************************************************************************)
\* Capacity of led_msgq used by the model.  K_MSGQ_DEFINE gives the queue 16
\* slots; the producers and the consumer never look at the number, so the
\* model keeps the queue small enough for a full queue to be reached.
MsgqMaxMsgs == 3
\* The value that stands for every word of a message_item outside the enums
\* (PATTERN_CONNECTED = 4 is the largest inside).
MaxWord == 5
\* Number of events the event bus delivers to the listeners in one run.
MaxEvents == 2
\* Number of times one run lets a message_item that was never written hold
\* something other than the previous message.
MaxIndeterminate == 1
\* Number of messages in the queue at a time when the engine is checked on
\* its own, against any sequence of messages.
MaxInFlight == 1

(***************************************************************************)
(* enum message_type, enum color, enum pattern_type                        *)
(***************************************************************************)
MESSAGE_COLOR_SET == 0
MESSAGE_PATTERN_SWAP == 1

COLOR_OFF == 0
COLOR_ON == 1

PATTERN_UNKNOWN == -1
PATTERN_BATT_30 == 0
PATTERN_BATT_20 == 1
PATTERN_BATT_10 == 2
PATTERN_ADVERTISING == 3
PATTERN_CONNECTED == 4

\* The table with a display of Connected that blinks twice
PATTERNS_twice ==
  << [times |-> 3, duration_ms |-> "BATTERY_BLINK_MS", sleep_ms |-> "BATTERY_BLINK_SLEEP_MS"],
     [times |-> 2, duration_ms |-> "BATTERY_BLINK_MS", sleep_ms |-> "BATTERY_BLINK_SLEEP_MS"],
     [times |-> 1, duration_ms |-> "BATTERY_BLINK_MS", sleep_ms |-> "BATTERY_BLINK_SLEEP_MS"],
     [times |-> 1, duration_ms |-> "CONN_ADVERTISING_MS", sleep_ms |-> 0],
     [times |-> 2, duration_ms |-> "CONN_CONNECTED_MS", sleep_ms |-> 0] >>

\* static const struct pattern PATTERNS[]; the durations are Kconfig symbols
\* and stay symbolic, 0 is the literal of the source.  C indexes from 0.
PATTERNS ==
  << [times |-> 3, duration_ms |-> "BATTERY_BLINK_MS", sleep_ms |-> "BATTERY_BLINK_SLEEP_MS"],
     [times |-> 2, duration_ms |-> "BATTERY_BLINK_MS", sleep_ms |-> "BATTERY_BLINK_SLEEP_MS"],
     [times |-> 1, duration_ms |-> "BATTERY_BLINK_MS", sleep_ms |-> "BATTERY_BLINK_SLEEP_MS"],
     [times |-> 1, duration_ms |-> "CONN_ADVERTISING_MS", sleep_ms |-> 0],
     [times |-> 1, duration_ms |-> "CONN_CONNECTED_MS", sleep_ms |-> 0] >>

\* sizeof(PATTERNS) / sizeof(PATTERNS[0])
NumPatterns == Len(PATTERNS)

\* struct message_item.  The union overlays color and pattern_off: both are
\* the word w0.  A designated initialiser zeroes what it does not name.
ColorSetMsg(color) ==
  [type |-> MESSAGE_COLOR_SET, w0 |-> color, pattern_on |-> 0]

PatternSwapMsg(off, on) ==
  [type |-> MESSAGE_PATTERN_SWAP, w0 |-> off, pattern_on |-> on]

msg_color(m) == m.w0

msg_pattern_off(m) == m.w0

\* What the bytes of a message_item may hold: any type, any words.  The model
\* takes three words: the sentinel, a value inside the enums (0 is COLOR_OFF
\* and PATTERN_BATT_30) and a value outside them; and a type outside the enum.
Words == {PATTERN_UNKNOWN, PATTERN_BATT_30, MaxWord}

MessageItems ==
  [type : {MESSAGE_COLOR_SET, MESSAGE_PATTERN_SWAP, 2}, w0 : Words, pattern_on : Words]

(***************************************************************************)
(* uint8_t arithmetic of the pattern bitmask                               *)
(***************************************************************************)
BitIsSet(v, b) == (v \div (2 ^ b)) % 2 = 1

\* led_current_patterns &= ~(1 << b), stored back into a uint8_t
ClearBit(v, b) == (IF BitIsSet(v, b) THEN v - 2 ^ b ELSE v) % 256

\* led_current_patterns |= (1 << b), stored back into a uint8_t
SetBit(v, b) == (IF BitIsSet(v, b) THEN v ELSE v + 2 ^ b) % 256

\* for (highest_priority_pattern = 0; v; highest_priority_pattern++) v >>= 1;
RECURSIVE HighestLoop(_, _)
HighestLoop(v, highest_priority_pattern) ==
  IF v # 0 THEN HighestLoop(v \div 2, highest_priority_pattern + 1)
  ELSE highest_priority_pattern

\* The loop started on led_current_patterns itself
HighestPriorityPattern_NoShift(patterns) == HighestLoop(patterns, 0)

\* The ordinal of the lowest bit set
HighestPriorityPattern_lowest(patterns) ==
  IF patterns = 0 THEN 0
  ELSE CHOOSE b \in 0 .. 7 :
         BitIsSet(patterns, b) /\ \A j \in 0 .. (b - 1) : ~BitIsSet(patterns, j)

\* uint8_t v = led_current_patterns >> 1; then the loop
HighestPriorityPattern(patterns) == HighestLoop(patterns \div 2, 0)

(***************************************************************************)
(* State                                                                   *)
(***************************************************************************)
VARIABLES
  role,                          \* build: which #if branch resolves connectivity
  usb_powered,                   \* what zmk_usb_is_powered() returns
  events,                        \* events delivered to the listeners so far
  initialized,
  usb_current_powered,
  current_connectivity_pattern,
  current_battery_pattern,
  led_msgq,                      \* the messages queued, oldest first
  work_pending,                  \* expiries of indicate_connectivity_work to come
  init_pc, retry,                \* led_init_thread and indicate_battery
  eng_pc,                        \* led_process_thread: where it blocks
  msg,                           \* led_process_thread: struct message_item msg
  indeterminate,                 \* reads of msg that found other than the last message
  led_default_color,
  led_current_patterns,
  led_current_color,
  pattern_index, i,              \* display_pattern: its argument, its counter
  led_hold,                      \* duration_ms of the last set_led call
  led_hw, led_hw_n,              \* last driver call and parity of the calls
  \* Observations: what a run has done so far (no state of the program)
  sync,                          \* per adapter: were its messages dropped
  burst,                         \* indicate_connectivity calls not yet evaluated
  fed,                           \* the adapter that ran last, and its value
  scen,                          \* how much of BatteryScenario was fed, in order
  scene,                         \* what the engine did since the Connected pair
  preempt,                       \* the condition asserted during a display
  render                         \* the set_led calls of the latest display

envVars == <<role, usb_powered>>
adapterVars == <<usb_current_powered, current_connectivity_pattern, current_battery_pattern>>
initVars == <<init_pc, retry>>
engVars == <<eng_pc, msg, indeterminate, led_default_color, led_current_patterns,
             pattern_index, i>>
ledVars == <<led_current_color, led_hold, led_hw, led_hw_n>>
progVars == <<envVars, initialized, adapterVars, led_msgq, work_pending, initVars,
              engVars, ledVars>>
vars == <<progVars, events, sync, burst, fed, scen, scene, preempt, render>>

Adapters == {"usb", "conn", "batt"}

\* The builds in which a branch of indicate_connectivity_internal assigns
\* next_connectivity_pattern: central or unsplit with BLE, and BLE peripheral.
Roles == {"central", "peripheral"}

\* Battery percentages the model feeds: 0 (undetermined), both sides of every
\* threshold, and the values 35, 25, 15, 5.
BattLevels == {0, 5, 10, 11, 15, 20, 21, 25, 30, 31, 35}

\* indicate_battery: retry++ < 10
BATTERY_RETRIES == 10

\* msg is not initialised; the first k_msgq_get waits (led_current_patterns is
\* 0) and overwrites it before it is read, so its first content is never seen.
Init ==
  /\ role \in Roles
  /\ usb_powered \in BOOLEAN
  /\ events = 0
  /\ initialized = FALSE
  /\ usb_current_powered = FALSE
  /\ current_connectivity_pattern = PATTERN_UNKNOWN
  /\ current_battery_pattern = PATTERN_UNKNOWN
  /\ led_msgq = <<>>
  /\ work_pending = 0
  /\ init_pc = "boot"
  /\ retry = 0
  /\ eng_pc = "boot"
  /\ msg = ColorSetMsg(COLOR_OFF)
  /\ indeterminate = 0
  /\ led_default_color = COLOR_OFF
  /\ led_current_patterns = 0
  /\ led_current_color = COLOR_OFF
  /\ pattern_index = 0
  /\ i = 0
  /\ led_hold = 0
  /\ led_hw = "none"
  /\ led_hw_n = 0
  /\ sync = [a \in Adapters |-> "clean"]
  /\ burst = 0
  /\ fed = [a |-> "none", v |-> 0, n |-> 0]
  /\ scene = <<>>
  /\ preempt = <<>>
  /\ render = <<>>
  /\ scen = 0

(***************************************************************************)
(* led_msgq                                                                *)
(***************************************************************************)
\* A put that makes room by discarding the oldest message
k_msgq_put_overwrites(q, m) ==
  IF Len(q) < MsgqMaxMsgs THEN Append(q, m) ELSE Append(Tail(q), m)

\* k_msgq_put(&led_msgq, &msg, K_NO_WAIT): appends, or returns at once with
\* the queue as it was when no slot is free.  The callers ignore the result.
k_msgq_put(q, m) == IF Len(q) < MsgqMaxMsgs THEN Append(q, m) ELSE q

(***************************************************************************)
(* Event adapters, as functions of the queue and the last-known value      *)
(***************************************************************************)
\* Each adapter gives the queue and its last-known value as it leaves them,
\* and the number of k_msgq_put calls it made.

\* indicate_usb_powered without the comparison with usb_current_powered
indicate_usb_powered_always(q, cur, powered) ==
  [q |-> k_msgq_put(q, ColorSetMsg(IF powered THEN COLOR_ON ELSE COLOR_OFF)),
   cur |-> powered, puts |-> 1]

\* indicate_usb_powered with zmk_usb_is_powered() = powered
indicate_usb_powered(q, cur, powered) ==
  IF cur # powered
  THEN [q |-> k_msgq_put(q, ColorSetMsg(IF powered THEN COLOR_ON ELSE COLOR_OFF)),
        cur |-> powered, puts |-> 1]
  ELSE [q |-> q, cur |-> cur, puts |-> 0]

\* The central branch of indicate_connectivity_internal
ResolveCentral(is_connected, is_open) ==
  IF is_connected THEN PATTERN_CONNECTED
  ELSE IF is_open THEN PATTERN_ADVERTISING
  ELSE PATTERN_UNKNOWN

\* The peripheral branch of indicate_connectivity_internal
ResolvePeripheral(is_connected) ==
  IF is_connected THEN PATTERN_CONNECTED ELSE PATTERN_UNKNOWN

\* The values next_connectivity_pattern can have when the comparison is
\* reached, over the answers of the BLE queries.
NextConnectivityPatterns(r) ==
  IF r = "central"
  THEN {ResolveCentral(c, o) : c \in BOOLEAN, o \in BOOLEAN}
  ELSE {ResolvePeripheral(c) : c \in BOOLEAN}

\* The evaluation without its next_connectivity_pattern = PATTERN_UNKNOWN
indicate_connectivity_internal_keeps(q, cur, next_connectivity_pattern) ==
  IF cur # next_connectivity_pattern
  THEN LET q1 == k_msgq_put(q, PatternSwapMsg(cur, next_connectivity_pattern))
       IN IF next_connectivity_pattern = PATTERN_CONNECTED
          THEN [q |-> k_msgq_put(q1, PatternSwapMsg(next_connectivity_pattern, PATTERN_UNKNOWN)),
                cur |-> next_connectivity_pattern, puts |-> 2]
          ELSE [q |-> q1, cur |-> next_connectivity_pattern, puts |-> 1]
  ELSE [q |-> q, cur |-> cur, puts |-> 0]

\* indicate_connectivity_internal from the comparison on
indicate_connectivity_internal(q, cur, next_connectivity_pattern) ==
  IF cur # next_connectivity_pattern
  THEN LET q1 == k_msgq_put(q, PatternSwapMsg(cur, next_connectivity_pattern))
       IN IF next_connectivity_pattern = PATTERN_CONNECTED
          THEN [q |-> k_msgq_put(q1, PatternSwapMsg(next_connectivity_pattern, PATTERN_UNKNOWN)),
                cur |-> PATTERN_UNKNOWN, puts |-> 2]
          ELSE [q |-> q1, cur |-> next_connectivity_pattern, puts |-> 1]
  ELSE [q |-> q, cur |-> cur, puts |-> 0]

\* The thresholds taken as exclusive
NextBatteryPattern_exclusive(level) ==
  IF level < 10 THEN PATTERN_BATT_10
  ELSE IF level < 20 THEN PATTERN_BATT_20
  ELSE IF level < 30 THEN PATTERN_BATT_30
  ELSE PATTERN_UNKNOWN

\* The thresholds of set_battery_level, for a nonzero level
NextBatteryPattern(level) ==
  IF level <= 10 THEN PATTERN_BATT_10
  ELSE IF level <= 20 THEN PATTERN_BATT_20
  ELSE IF level <= 30 THEN PATTERN_BATT_30
  ELSE PATTERN_UNKNOWN

\* set_battery_level(level)
set_battery_level(q, cur, level) ==
  IF level = 0
  THEN [q |-> q, cur |-> cur, puts |-> 0]
  ELSE LET next_battery_pattern == NextBatteryPattern(level)
       IN IF cur # next_battery_pattern
          THEN [q |-> k_msgq_put(q, PatternSwapMsg(cur, next_battery_pattern)),
                cur |-> next_battery_pattern, puts |-> 1]
          ELSE [q |-> q, cur |-> cur, puts |-> 0]

(***************************************************************************)
(* Listeners and the debouncer                                             *)
(***************************************************************************)
\* The listener without its test of initialized
led_charge_listener_cb_ungated(powered) ==
  /\ usb_powered' = powered
  /\ LET r == indicate_usb_powered(led_msgq, usb_current_powered, powered)
     IN led_msgq' = r.q /\ usb_current_powered' = r.cur
  /\ UNCHANGED <<role, initialized, current_connectivity_pattern, current_battery_pattern,
                 work_pending, initVars, engVars, ledVars>>

\* zmk_usb_conn_state_changed is raised with the USB state now `powered`;
\* led_charge_listener_cb runs indicate_usb_powered once initialized.
led_charge_listener_cb(powered) ==
  /\ usb_powered' = powered
  /\ LET r == indicate_usb_powered(led_msgq, usb_current_powered, powered)
     IN IF initialized
        THEN led_msgq' = r.q /\ usb_current_powered' = r.cur
        ELSE UNCHANGED <<led_msgq, usb_current_powered>>
  /\ UNCHANGED <<role, initialized, current_connectivity_pattern, current_battery_pattern,
                 work_pending, initVars, engVars, ledVars>>

\* A schedule that adds a delay to the one that is running
indicate_connectivity_adds(pending) == pending + 1

\* indicate_connectivity: k_work_reschedule cancels the delay that is running,
\* if any, and starts a new one: one expiry is to come, whatever was pending.
indicate_connectivity(pending) == 1

\* led_output_listener_cb
led_output_listener_cb ==
  /\ work_pending' = (IF initialized THEN indicate_connectivity(work_pending)
                      ELSE work_pending)
  /\ UNCHANGED <<envVars, initialized, adapterVars, led_msgq, initVars, engVars, ledVars>>

\* The delay expires: indicate_connectivity_cb runs the evaluation.
indicate_connectivity_cb(next_connectivity_pattern) ==
  /\ work_pending > 0
  /\ work_pending' = work_pending - 1
  /\ LET r == indicate_connectivity_internal(led_msgq, current_connectivity_pattern,
                                             next_connectivity_pattern)
     IN led_msgq' = r.q /\ current_connectivity_pattern' = r.cur
  /\ UNCHANGED <<envVars, initialized, usb_current_powered, current_battery_pattern,
                 initVars, engVars, ledVars>>

\* led_battery_listener_cb with state_of_charge = level
led_battery_listener_cb(level) ==
  /\ LET r == set_battery_level(led_msgq, current_battery_pattern, level)
     IN IF initialized
        THEN led_msgq' = r.q /\ current_battery_pattern' = r.cur
        ELSE UNCHANGED <<led_msgq, current_battery_pattern>>
  /\ UNCHANGED <<envVars, initialized, usb_current_powered, current_connectivity_pattern,
                 work_pending, initVars, engVars, ledVars>>

(***************************************************************************)
(* led_init_thread                                                         *)
(***************************************************************************)
\* The thread starts 200 ms after boot, led_process_thread 100 ms after
\* boot: the engine has run its start-up when this thread begins.
InitUsb ==
  /\ init_pc = "boot"
  /\ eng_pc # "boot"
  /\ LET r == indicate_usb_powered(led_msgq, usb_current_powered, usb_powered)
     IN led_msgq' = r.q /\ usb_current_powered' = r.cur
  /\ init_pc' = "conn"
  /\ UNCHANGED <<envVars, initialized, current_connectivity_pattern,
                 current_battery_pattern, work_pending, retry, engVars, ledVars>>

InitConnectivity ==
  /\ init_pc = "conn"
  /\ work_pending' = indicate_connectivity(work_pending)
  /\ init_pc' = "batt"
  /\ UNCHANGED <<envVars, initialized, adapterVars, led_msgq, retry, engVars, ledVars>>

\* indicate_battery with one poll more
InitBattery_once_more(level) ==
  /\ init_pc \in {"batt", "poll"}
  /\ IF level = 0 /\ retry <= BATTERY_RETRIES
     THEN /\ retry' = retry + 1
          /\ init_pc' = "poll"
          /\ UNCHANGED <<led_msgq, current_battery_pattern>>
     ELSE /\ retry' = 0
          /\ init_pc' = "flag"
          /\ LET r == set_battery_level(led_msgq, current_battery_pattern, level)
             IN led_msgq' = r.q /\ current_battery_pattern' = r.cur
  /\ UNCHANGED <<envVars, initialized, usb_current_powered,
                 current_connectivity_pattern, work_pending, engVars, ledVars>>

\* indicate_battery reads zmk_battery_state_of_charge() = level, at first
\* (init_pc = "batt") or after a k_sleep(100) (init_pc = "poll").
\* while (battery_level == 0 && retry++ < 10) sleeps again; otherwise the
\* loop ends and set_battery_level(battery_level) runs.  retry is a local:
\* it is gone when indicate_battery returns.
InitBattery(level) ==
  /\ init_pc \in {"batt", "poll"}
  /\ IF level = 0 /\ retry < BATTERY_RETRIES
     THEN /\ retry' = retry + 1
          /\ init_pc' = "poll"
          /\ UNCHANGED <<led_msgq, current_battery_pattern>>
     ELSE /\ retry' = 0
          /\ init_pc' = "flag"
          /\ LET r == set_battery_level(led_msgq, current_battery_pattern, level)
             IN led_msgq' = r.q /\ current_battery_pattern' = r.cur
  /\ UNCHANGED <<envVars, initialized, usb_current_powered,
                 current_connectivity_pattern, work_pending, engVars, ledVars>>

InitDone ==
  /\ init_pc = "flag"
  /\ initialized' = TRUE
  /\ init_pc' = "done"
  /\ UNCHANGED <<envVars, adapterVars, led_msgq, work_pending, retry, engVars, ledVars>>

(***************************************************************************)
(* The LED and led_process_thread                                          *)
(***************************************************************************)
\* set_led(color, duration_ms): the driver is called only when the level
\* differs from the cached one; the sleep is where the thread then blocks.
set_led(color, duration_ms) ==
  /\ IF led_current_color # color
     THEN /\ led_hw' = (IF color # 0 THEN "led_on" ELSE "led_off")
          /\ led_hw_n' = 1 - led_hw_n
     ELSE UNCHANGED <<led_hw, led_hw_n>>
  /\ led_current_color' = color
  /\ led_hold' = duration_ms

\* The switch on msg.type of led_process_thread
ApplyMsg(m, color, patterns) ==
  IF m.type = MESSAGE_COLOR_SET
  THEN [color |-> msg_color(m), patterns |-> patterns]
  ELSE IF m.type = MESSAGE_PATTERN_SWAP
  THEN LET p1 == IF msg_pattern_off(m) # PATTERN_UNKNOWN
                 THEN ClearBit(patterns, msg_pattern_off(m)) ELSE patterns
           p2 == IF m.pattern_on # PATTERN_UNKNOWN
                 THEN SetBit(p1, m.pattern_on) ELSE p1
       IN [color |-> color, patterns |-> p2]
  ELSE [color |-> color, patterns |-> patterns]

\* The colour itself in place of the inverse
Inverse_same(color) == color

\* led_default_color == COLOR_ON ? COLOR_OFF : COLOR_ON
Inverse(color) == IF color = COLOR_ON THEN COLOR_OFF ELSE COLOR_ON

\* Start of led_process_thread: k_work_init_delayable, set_led(default, 0)
EngineStart ==
  /\ eng_pc = "boot"
  /\ set_led(led_default_color, 0)
  /\ eng_pc' = "get"
  /\ UNCHANGED <<envVars, initialized, adapterVars, led_msgq, work_pending, initVars,
                 msg, indeterminate, led_default_color, led_current_patterns,
                 pattern_index, i>>

\* What msg holds after k_msgq_get.  A message is copied out of the queue;
\* K_NO_WAIT on an empty queue returns without writing msg, which as a local
\* that is never initialised may hold the previous message or anything else.
k_msgq_get(q, slot, n) ==
  IF q # <<>> THEN {Head(q)}
  ELSE {slot} \cup (IF n < MaxIndeterminate THEN MessageItems ELSE {})

\* The rest of one pass of the loop, from the switch to the first point
\* where the thread blocks again.
Process(m) ==
  LET st == ApplyMsg(m, led_default_color, led_current_patterns)
      highest_priority_pattern == HighestPriorityPattern(st.patterns)
  IN /\ led_default_color' = st.color
     /\ led_current_patterns' = st.patterns
     /\ \/ /\ st.patterns = 0
           /\ set_led(st.color, 0)
           /\ eng_pc' = "get"
           /\ UNCHANGED <<pattern_index, i>>
        \/ /\ st.patterns # 0
           /\ pattern_index' = highest_priority_pattern
           /\ i' = 0
           /\ eng_pc' = (IF highest_priority_pattern >= NumPatterns THEN "get"
                         ELSE IF 0 < PATTERNS[highest_priority_pattern + 1].times
                         THEN "on" ELSE "rest")
           /\ UNCHANGED ledVars

\* A pass of the loop that applies the message at the head of the queue and
\* leaves it there
EngineGet_keeps ==
  /\ eng_pc = "get"
  /\ led_current_patterns = 0 => led_msgq # <<>>
  /\ led_msgq' = led_msgq
  /\ \E m \in k_msgq_get(led_msgq, msg, indeterminate) :
       /\ msg' = m
       /\ indeterminate' = (IF led_msgq = <<>> /\ m # msg THEN indeterminate + 1
                            ELSE indeterminate)
       /\ Process(m)
  /\ UNCHANGED <<envVars, initialized, adapterVars, work_pending, initVars>>

\* One pass of the loop of led_process_thread.  K_FOREVER (no pattern is
\* active) waits for a message; the result of k_msgq_get is not looked at.
EngineGet ==
  /\ eng_pc = "get"
  /\ led_current_patterns = 0 => led_msgq # <<>>
  /\ led_msgq' = (IF led_msgq # <<>> THEN Tail(led_msgq) ELSE led_msgq)
  /\ \E m \in k_msgq_get(led_msgq, msg, indeterminate) :
       /\ msg' = m
       /\ indeterminate' = (IF led_msgq = <<>> /\ m # msg THEN indeterminate + 1
                            ELSE indeterminate)
       /\ Process(m)
  /\ UNCHANGED <<envVars, initialized, adapterVars, work_pending, initVars>>

\* display_pattern: set_led(inverse of the default colour, p->duration_ms)
EngineOn ==
  /\ eng_pc = "on"
  /\ set_led(Inverse(led_default_color), PATTERNS[pattern_index + 1].duration_ms)
  /\ IF i < PATTERNS[pattern_index + 1].times - 1
     THEN eng_pc' = "gap" /\ i' = i
     ELSE eng_pc' = "rest" /\ i' = i + 1
  /\ UNCHANGED <<envVars, initialized, adapterVars, led_msgq, work_pending, initVars,
                 msg, indeterminate, led_default_color, led_current_patterns,
                 pattern_index>>

\* display_pattern: set_led(led_default_color, p->sleep_ms), then i++
EngineGap ==
  /\ eng_pc = "gap"
  /\ set_led(led_default_color, PATTERNS[pattern_index + 1].sleep_ms)
  /\ i' = i + 1
  /\ eng_pc' = (IF i + 1 < PATTERNS[pattern_index + 1].times THEN "on" ELSE "rest")
  /\ UNCHANGED <<envVars, initialized, adapterVars, led_msgq, work_pending, initVars,
                 msg, indeterminate, led_default_color, led_current_patterns,
                 pattern_index>>

\* display_pattern: set_led(led_default_color, CONFIG_LED_WIDGET_INTERVAL_MS)
EngineRest ==
  /\ eng_pc = "rest"
  /\ set_led(led_default_color, "INTERVAL_MS")
  /\ eng_pc' = "get"
  /\ UNCHANGED <<envVars, initialized, adapterVars, led_msgq, work_pending, initVars,
                 msg, indeterminate, led_default_color, led_current_patterns,
                 pattern_index, i>>

(***************************************************************************)
(* Observations                                                            *)
(***************************************************************************)
\* What adapter a does in this state when it is given the value v
Emission(a, v) ==
  IF a = "usb" THEN indicate_usb_powered(led_msgq, usb_current_powered, v)
  ELSE IF a = "conn"
  THEN indicate_connectivity_internal(led_msgq, current_connectivity_pattern, v)
  ELSE set_battery_level(led_msgq, current_battery_pattern, v)

\* sync[a] becomes "dropped" when a message of adapter a finds the queue full,
\* and "resent" when, after that, adapter a next enqueues all it emits.
SyncAfter(a, v) ==
  LET r == Emission(a, v)
  IN IF r.puts = 0 THEN sync[a]
     ELSE IF Len(r.q) - Len(led_msgq) < r.puts THEN "dropped"
     ELSE IF sync[a] = "dropped" THEN "resent"
     ELSE sync[a]

\* Adapter a runs with the value v (called), or the listener returns at once.
ObserveSync(called, a, v) ==
  sync' = (IF called THEN [sync EXCEPT ![a] = SyncAfter(a, v)] ELSE sync)

\* fed is the adapter that ran last and the value v it ran with, and n says
\* whether this was the first run in a row with that value or a later one.
\* The power state is written 1 for powered and 0 for not powered.
PowerValue(powered) == IF powered THEN 1 ELSE 0

ObserveFed(called, a, v) ==
  fed' = (IF ~called THEN fed
          ELSE IF fed.a = a /\ fed.v = v THEN [fed EXCEPT !.n = 2]
          ELSE [a |-> a, v |-> v, n |-> 1])

\* The scenario of battery readings 35, 25, 15, 5
BatteryScenario == <<35, 25, 15, 5>>

\* scen counts the readings of the scenario fed so far, when nothing else was
\* fed to any adapter; -1 when something else was.
ObserveScen(called, level) ==
  scen' = (IF ~called THEN scen
           ELSE IF scen >= 0 /\ scen < Len(BatteryScenario) /\ level = BatteryScenario[scen + 1]
           THEN scen + 1
           ELSE -1)

\* What can be seen of the engine: where it blocks, the conditions that are
\* active, the pattern it displays (-1 when it displays none) and the LED.
Shown(pc, patterns, index, color) ==
  [pc |-> pc, patterns |-> patterns,
   index |-> (IF pc \in {"on", "gap", "rest"} THEN index ELSE -1), led |-> color]

MaxScene == 8

\* scene is empty until the two messages of a connection are enqueued for an
\* idle engine; from then on every step of the engine adds what it shows,
\* until another message is sent.
ObserveScene ==
  scene' = (IF scene = <<>> \/ Len(scene) >= MaxScene THEN scene
            ELSE Append(scene, Shown(eng_pc', led_current_patterns', pattern_index',
                                     led_current_color')))

\* One call of set_led
Interval(color, duration_ms) == [color |-> color, duration_ms |-> duration_ms]

\* render is the calls of set_led that display_pattern has made since the
\* loop last called it.
ObserveRender == render' = Append(render, Interval(led_current_color', led_hold'))

\* The engine is in display_pattern.
Displaying == eng_pc \in {"on", "gap", "rest"}

\* preempt is <<on, ahead>> from the moment adapter a enqueues, during a
\* display, a toggle that asserts a condition `on` above the one displayed,
\* with `ahead` messages in the queue before it; every pass of the loop
\* takes one from ahead, the pass that finds 0 leaves -1, the next one <<>>.
ObservePreempt(called, a, v) ==
  LET r == Emission(a, v)
      at == Len(led_msgq) + 1
  IN preempt' =
       (IF /\ called
           /\ preempt = <<>> \/ preempt[2] < 0
           /\ Displaying
           /\ Len(r.q) >= at
           /\ r.q[at].type = MESSAGE_PATTERN_SWAP
           /\ r.q[at].pattern_on > pattern_index
        THEN <<r.q[at].pattern_on, at - 1>>
        ELSE preempt)

ServePreempt ==
  preempt' = (IF preempt = <<>> \/ preempt[2] < 0 THEN <<>>
              ELSE <<preempt[1], preempt[2] - 1>>)

(***************************************************************************)
(* The system                                                              *)
(***************************************************************************)
\* The readings the model gives the battery listener and indicate_battery in
\* the whole system: 0 and one value of every tier.
SystemBattLevels == {0, 5, 15, 25, 35}

\* The event bus delivers one more event.
Deliver == events < MaxEvents /\ events' = events + 1

\* zmk_usb_conn_state_changed
UsbConnStateChanged ==
  \E powered \in BOOLEAN :
    /\ Deliver
    /\ led_charge_listener_cb(powered)
    /\ ObserveSync(initialized, "usb", powered)
    /\ UNCHANGED <<burst, fed, scen, scene, preempt, render>>

\* zmk_ble_active_profile_changed or zmk_split_peripheral_status_changed
ConnectivityChanged ==
  /\ Deliver
  /\ led_output_listener_cb
  /\ burst' = (IF initialized THEN burst + 1 ELSE burst)
  /\ UNCHANGED <<sync, fed, scen, scene, preempt, render>>

\* zmk_battery_state_changed
BatteryStateChanged ==
  \E level \in SystemBattLevels :
    /\ Deliver
    /\ led_battery_listener_cb(level)
    /\ ObserveSync(initialized, "batt", level)
    /\ ObservePreempt(initialized, "batt", level)
    /\ UNCHANGED <<burst, fed, scen, scene, render>>

\* The delay of indicate_connectivity_work expires.
WorkExpires ==
  \E n \in NextConnectivityPatterns(role) :
    /\ indicate_connectivity_cb(n)
    /\ ObserveSync(TRUE, "conn", n)
    /\ ObservePreempt(TRUE, "conn", n)
    /\ burst' = 0
    /\ UNCHANGED <<events, fed, scen, scene, render>>

InitThreadUsb ==
  /\ InitUsb
  /\ ObserveSync(TRUE, "usb", usb_powered)
  /\ UNCHANGED <<events, burst, fed, scen, scene, preempt, render>>

InitThreadConnectivity ==
  /\ InitConnectivity
  /\ burst' = burst + 1
  /\ UNCHANGED <<events, sync, fed, scen, scene, preempt, render>>

InitThreadBattery ==
  \E level \in SystemBattLevels :
    /\ InitBattery(level)
    /\ ObserveSync(init_pc' = "flag", "batt", level)
    /\ ObservePreempt(init_pc' = "flag", "batt", level)
    /\ UNCHANGED <<events, burst, fed, scen, scene, render>>

InitThreadDone == InitDone /\ UNCHANGED <<events, sync, burst, fed, scen, scene, preempt, render>>

ProcessStart == EngineStart /\ UNCHANGED <<events, sync, burst, fed, scen, scene, preempt, render>>

ProcessGet ==
  /\ EngineGet
  /\ ObserveScene
  /\ ServePreempt
  /\ render' = <<>>
  /\ UNCHANGED <<events, sync, burst, fed, scen>>

ProcessOn ==
  EngineOn /\ ObserveScene /\ ObserveRender /\ UNCHANGED <<events, sync, burst, fed, scen, preempt>>

ProcessGap ==
  EngineGap /\ ObserveScene /\ ObserveRender /\ UNCHANGED <<events, sync, burst, fed, scen, preempt>>

ProcessRest ==
  EngineRest /\ ObserveScene /\ ObserveRender /\ UNCHANGED <<events, sync, burst, fed, scen, preempt>>

Next ==
  \/ UsbConnStateChanged
  \/ ConnectivityChanged
  \/ BatteryStateChanged
  \/ WorkExpires
  \/ InitThreadUsb
  \/ InitThreadConnectivity
  \/ InitThreadBattery
  \/ InitThreadDone
  \/ ProcessStart
  \/ ProcessGet
  \/ ProcessOn
  \/ ProcessGap
  \/ ProcessRest

Spec == Init /\ [][Next]_vars

(***************************************************************************)
(* The adapters alone: every listener, and the evaluation, run any number  *)
(* of times on a system that has booted with USB power off, no connection  *)
(* and no battery reading, and whose queue nobody empties.                 *)
(***************************************************************************)
Booted ==
  /\ initialized
  /\ init_pc = "done"
  /\ eng_pc = "get"
  /\ ~usb_powered
  /\ ~usb_current_powered
  /\ current_connectivity_pattern = PATTERN_UNKNOWN
  /\ current_battery_pattern = PATTERN_UNKNOWN
  /\ led_msgq = <<>>
  /\ work_pending = 0
  /\ led_current_patterns = 0
  /\ led_default_color = COLOR_OFF

BootedInit ==
  /\ role \in Roles
  /\ usb_powered = FALSE
  /\ events = 0
  /\ initialized = TRUE
  /\ usb_current_powered = FALSE
  /\ current_connectivity_pattern = PATTERN_UNKNOWN
  /\ current_battery_pattern = PATTERN_UNKNOWN
  /\ led_msgq = <<>>
  /\ work_pending = 0
  /\ init_pc = "done"
  /\ retry = 0
  /\ eng_pc = "get"
  /\ msg = ColorSetMsg(COLOR_OFF)
  /\ indeterminate = 0
  /\ led_default_color = COLOR_OFF
  /\ led_current_patterns = 0
  /\ led_current_color = COLOR_OFF
  /\ pattern_index = 0
  /\ i = 0
  /\ led_hold = 0
  /\ led_hw = "none"
  /\ led_hw_n = 0
  /\ sync = [a \in Adapters |-> "clean"]
  /\ burst = 0
  /\ fed = [a |-> "none", v |-> 0, n |-> 0]
  /\ scene = <<>>
  /\ preempt = <<>>
  /\ render = <<>>
  /\ scen = 0

FeedUsb ==
  \E powered \in BOOLEAN :
    /\ led_charge_listener_cb(powered)
    /\ ObserveFed(TRUE, "usb", PowerValue(powered))
    /\ scen' = -1
    /\ UNCHANGED <<events, sync, burst, scene, preempt, render>>

FeedSchedule ==
  /\ led_output_listener_cb
  /\ UNCHANGED <<events, sync, burst, fed, scen, scene, preempt, render>>

FeedConnectivity ==
  \E n \in NextConnectivityPatterns(role) :
    /\ indicate_connectivity_cb(n)
    /\ ObserveFed(TRUE, "conn", n)
    /\ scen' = -1
    /\ UNCHANGED <<events, sync, burst, scene, preempt, render>>

FeedBattery ==
  \E level \in BattLevels :
    /\ led_battery_listener_cb(level)
    /\ ObserveFed(TRUE, "batt", level)
    /\ ObserveScen(TRUE, level)
    /\ UNCHANGED <<events, sync, burst, scene, preempt, render>>

AdapterNext == FeedUsb \/ FeedSchedule \/ FeedConnectivity \/ FeedBattery

AdapterSpec == BootedInit /\ [][AdapterNext]_vars

(***************************************************************************)
(* The engine alone: led_process_thread, on a system that has booted as    *)
(* above, is sent any sequence of messages that set the colour, assert one *)
(* condition or retract one condition, whatever the adapters' own state.   *)
(***************************************************************************)
Conditions == PATTERN_BATT_30 .. PATTERN_CONNECTED

AdapterMsgs ==
  {ColorSetMsg(c) : c \in {COLOR_OFF, COLOR_ON}}
    \cup {PatternSwapMsg(PATTERN_UNKNOWN, on) : on \in Conditions}
    \cup {PatternSwapMsg(off, PATTERN_UNKNOWN) : off \in Conditions}

Send ==
  \E m \in AdapterMsgs :
    /\ Len(led_msgq) < MaxInFlight
    /\ led_msgq' = k_msgq_put(led_msgq, m)
    /\ UNCHANGED <<envVars, initialized, adapterVars, work_pending, initVars, engVars, ledVars>>
    /\ scene' = <<>>
    /\ UNCHANGED <<events, sync, burst, fed, scen, preempt, render>>

\* The engine is idle: no condition is active, the colour and the LED are off,
\* the queue is empty and the thread waits in k_msgq_get.
Idle ==
  /\ eng_pc = "get"
  /\ led_msgq = <<>>
  /\ led_current_patterns = 0
  /\ led_default_color = COLOR_OFF
  /\ led_current_color = COLOR_OFF

\* The two messages of a connection are put in the queue of an idle engine,
\* as indicate_connectivity_internal puts them.
SendConnected ==
  /\ Idle
  /\ led_msgq' = indicate_connectivity_internal(led_msgq, PATTERN_UNKNOWN,
                                                 PATTERN_CONNECTED).q
  /\ scene' = <<Shown(eng_pc, led_current_patterns, pattern_index, led_current_color)>>
  /\ UNCHANGED <<envVars, initialized, adapterVars, work_pending, initVars, engVars, ledVars>>
  /\ UNCHANGED <<events, sync, burst, fed, scen, preempt, render>>

EngineNext == Send \/ SendConnected \/ ProcessGet \/ ProcessOn \/ ProcessGap \/ ProcessRest

EngineSpec == BootedInit /\ [][EngineNext]_vars

(***************************************************************************)
(* Priority                                                                *)
(***************************************************************************)
\* The ordinal of the highest bit set in a non-zero byte
HighestSetBit(v) ==
  CHOOSE b \in 0 .. 7 : BitIsSet(v, b) /\ \A j \in (b + 1) .. 7 : ~BitIsSet(v, j)

\* C1: in every pass of the loop of led_process_thread that leaves
\* led_current_patterns non-zero, the index given to display_pattern is the
\* ordinal of the highest bit set in led_current_patterns.
C1_PriorityCorrect ==
  [][(ProcessGet /\ led_current_patterns' # 0)
       => pattern_index' = HighestSetBit(led_current_patterns')]_vars

\* Three conditions are asserted, the lowest of them last, and the engine
\* displays the highest of them.
C1_Witness ==
  /\ eng_pc = "on"
  /\ led_current_patterns = 2 ^ PATTERN_BATT_30 + 2 ^ PATTERN_BATT_20 + 2 ^ PATTERN_ADVERTISING
  /\ pattern_index = PATTERN_ADVERTISING
  /\ msg = PatternSwapMsg(PATTERN_UNKNOWN, PATTERN_BATT_30)

(***************************************************************************)
(* The queue as the claims describe it                                     *)
(***************************************************************************)
\* enqueue(msg): the message goes to the tail when a slot is free, and is
\* dropped otherwise.
Offer(q, m) == IF Len(q) < MsgqMaxMsgs THEN q \o <<m>> ELSE q

ToggleMsg(off, on) == [type |-> MESSAGE_PATTERN_SWAP, w0 |-> off, pattern_on |-> on]

(***************************************************************************)
(* Connect-blink-once                                                      *)
(***************************************************************************)
\* C2: an evaluation that resolves to Connected enqueues exactly two toggles,
\* (off = last-known, on = Connected) and then (off = Connected, on = none),
\* and leaves the last-known value none; when the engine applies the second
\* one, the Connected bit is clear afterwards.
C2_ConnectBlinkOnce ==
  [][/\ indicate_connectivity_cb(PATTERN_CONNECTED)
          => /\ led_msgq' =
                  Offer(Offer(led_msgq,
                              ToggleMsg(current_connectivity_pattern, PATTERN_CONNECTED)),
                        ToggleMsg(PATTERN_CONNECTED, PATTERN_UNKNOWN))
             /\ current_connectivity_pattern' = PATTERN_UNKNOWN
     /\ (/\ ProcessGet
         /\ led_msgq # <<>>
         /\ Head(led_msgq) = ToggleMsg(PATTERN_CONNECTED, PATTERN_UNKNOWN))
          => ~BitIsSet(led_current_patterns', PATTERN_CONNECTED)]_vars

\* The pair was enqueued in full and the engine has applied both messages.
C2_Witness ==
  /\ msg = ToggleMsg(PATTERN_CONNECTED, PATTERN_UNKNOWN)
  /\ sync["conn"] = "clean"
  /\ indeterminate = 0
  /\ current_connectivity_pattern = PATTERN_UNKNOWN
  /\ led_current_patterns = 0
  /\ eng_pc = "get"

(***************************************************************************)
(* Drop-safety                                                             *)
(***************************************************************************)
\* C4: the queue changes only by messages added at its tail while slots are
\* free, and by the engine taking the message at its head, as it was queued;
\* so a producer that finds the queue full leaves it as it is.  On a full
\* queue every producer still runs to its end.
NonBlocking ==
  (Len(led_msgq) = MsgqMaxMsgs)
    => /\ ENABLED (/\ led_charge_listener_cb(~usb_current_powered)
                   /\ initialized => usb_current_powered' # usb_current_powered)
       /\ ENABLED (/\ led_battery_listener_cb(5)
                   /\ initialized => current_battery_pattern' = PATTERN_BATT_10)
       /\ work_pending > 0 => ENABLED indicate_connectivity_cb(PATTERN_CONNECTED)

C4_DropSafety ==
  /\ []NonBlocking
  /\ [][\/ led_msgq' = led_msgq
        \/ /\ Len(led_msgq) < Len(led_msgq')
           /\ Len(led_msgq') <= MsgqMaxMsgs
           /\ SubSeq(led_msgq', 1, Len(led_msgq)) = led_msgq
        \/ /\ ProcessGet
           /\ led_msgq # <<>>
           /\ led_msgq' = Tail(led_msgq)
           /\ msg' = Head(led_msgq)]_vars

\* A battery toggle was dropped and the queue is still full.
C4_Witness ==
  /\ Len(led_msgq) = MsgqMaxMsgs
  /\ sync["batt"] = "dropped"

(***************************************************************************)
(* Boot suppression                                                        *)
(***************************************************************************)
\* C6: while initialized is false an event delivered to a listener leaves
\* the queue, the delayed work and every adapter's last-known value as they
\* are; a message enters the queue only from led_init_thread or from the
\* evaluation, and the evaluation is scheduled only by led_init_thread.
C6_BootSuppression ==
  [][~initialized
       => /\ (events' # events) => UNCHANGED <<led_msgq, work_pending, adapterVars>>
          /\ (Len(led_msgq') > Len(led_msgq))
               => \/ InitUsb
                  \/ \E level \in SystemBattLevels : InitBattery(level)
                  \/ \E n \in NextConnectivityPatterns(role) : indicate_connectivity_cb(n)
          /\ (work_pending' > work_pending) => InitConnectivity]_vars

\* The snapshot is taken, the flag is not set yet, and a USB event that
\* came since has changed the power state without a message.
C6_Witness ==
  /\ ~initialized
  /\ init_pc = "flag"
  /\ events > 0
  /\ usb_powered # usb_current_powered
  /\ led_msgq # <<>>

(***************************************************************************)
(* Debounce                                                                *)
(***************************************************************************)
\* C7: however many calls of indicate_connectivity were made since the last
\* evaluation, one evaluation is to come, and none when there was no call.
C7_DebounceCoalescing == work_pending = (IF burst > 0 THEN 1 ELSE 0)

\* Two calls and more are waiting for their one evaluation.
C7_Witness == burst >= 2 /\ work_pending = 1

(***************************************************************************)
(* Idempotence of the adapters                                             *)
(***************************************************************************)
\* Adapter a runs now, with the value v.
Runs(a, v) ==
  IF a = "usb" THEN led_charge_listener_cb(v = PowerValue(TRUE))
  ELSE IF a = "conn" THEN indicate_connectivity_cb(v)
  ELSE led_battery_listener_cb(v)

Values(a) ==
  IF a = "usb" THEN {PowerValue(powered) : powered \in BOOLEAN}
  ELSE IF a = "conn" THEN NextConnectivityPatterns(role)
  ELSE BattLevels

\* Adapter a runs now with the value it ran with last.
RunsAgain(a, v) == Runs(a, v) /\ fed.a = a /\ fed.v = v

\* C3 as stated: an adapter that runs enqueues one message at most, and one
\* that runs with the value it ran with last enqueues nothing.
C3_AsStated ==
  [][\A a \in Adapters : \A v \in Values(a) :
       /\ Runs(a, v) => Len(led_msgq') <= Len(led_msgq) + 1
       /\ RunsAgain(a, v) => led_msgq' = led_msgq]_vars

\* C3: the power adapter, the battery adapter, and the connectivity adapter
\* for a value other than Connected, enqueue one message at most when they
\* run, and nothing when they run with the value they ran with last; the
\* connectivity adapter that runs with Connected enqueues its two toggles,
\* from none when it ran with Connected last, every time.
C3_IdempotentAdapters ==
  [][\A a \in Adapters : \A v \in Values(a) :
       IF a = "conn" /\ v = PATTERN_CONNECTED
       THEN /\ Runs(a, v)
                 => led_msgq' =
                      Offer(Offer(led_msgq,
                                  ToggleMsg(current_connectivity_pattern, PATTERN_CONNECTED)),
                            ToggleMsg(PATTERN_CONNECTED, PATTERN_UNKNOWN))
            /\ RunsAgain(a, v) => current_connectivity_pattern = PATTERN_UNKNOWN
       ELSE /\ Runs(a, v) => Len(led_msgq') <= Len(led_msgq) + 1
            /\ RunsAgain(a, v) => led_msgq' = led_msgq]_vars

\* The battery adapter ran twice in a row with 25 and enqueued one message,
\* and slots are still free.
C3_Witness ==
  /\ fed = [a |-> "batt", v |-> 25, n |-> 2]
  /\ led_msgq = <<ToggleMsg(PATTERN_UNKNOWN, PATTERN_BATT_30)>>

(***************************************************************************)
(* The battery adapter                                                     *)
(***************************************************************************)
Tier(level) ==
  CASE level <= 10 -> PATTERN_BATT_10
    [] level > 10 /\ level <= 20 -> PATTERN_BATT_20
    [] level > 20 /\ level <= 30 -> PATTERN_BATT_30
    [] level > 30 -> PATTERN_UNKNOWN

\* C9: a reading of 0 leaves the queue and the last-known tier as they are; a
\* nonzero reading makes its tier the last-known one and enqueues the toggle
\* from the last-known tier to it exactly when the two differ.  After 35, 25,
\* 15, 5 and nothing else the queue holds none->tier-3, tier-3->tier-2 and
\* tier-2->tier-1.
C9_BatteryMapping ==
  /\ [][\A level \in BattLevels :
          led_battery_listener_cb(level)
            => IF level = 0
               THEN UNCHANGED <<led_msgq, current_battery_pattern>>
               ELSE /\ current_battery_pattern' = Tier(level)
                    /\ led_msgq' =
                         (IF Tier(level) # current_battery_pattern
                          THEN Offer(led_msgq,
                                     ToggleMsg(current_battery_pattern, Tier(level)))
                          ELSE led_msgq)]_vars
  /\ [](scen = Len(BatteryScenario)
          => led_msgq = <<ToggleMsg(PATTERN_UNKNOWN, PATTERN_BATT_30),
                          ToggleMsg(PATTERN_BATT_30, PATTERN_BATT_20),
                          ToggleMsg(PATTERN_BATT_20, PATTERN_BATT_10)>>)

\* The four readings of the scenario were fed, and nothing else.
C9_Witness ==
  /\ scen = Len(BatteryScenario)
  /\ fed = [a |-> "batt", v |-> 5, n |-> 1]
  /\ current_battery_pattern = PATTERN_BATT_10
  /\ Len(led_msgq) = 3

(***************************************************************************)
(* The scenario of a connection                                            *)
(***************************************************************************)
\* What the engine shows from the two messages on: idle, then the one blink
\* of Connected (LED on, then off for the interval), then idle again.
ConnectedScene ==
  <<Shown("get", 0, -1, COLOR_OFF),
    Shown("on", 2 ^ PATTERN_CONNECTED, PATTERN_CONNECTED, COLOR_OFF),
    Shown("rest", 2 ^ PATTERN_CONNECTED, PATTERN_CONNECTED, COLOR_ON),
    Shown("get", 2 ^ PATTERN_CONNECTED, -1, COLOR_OFF),
    Shown("get", 0, -1, COLOR_OFF)>>

\* C10: once (off = none, on = Connected) and (off = Connected, on = none)
\* are enqueued for an idle engine with the colour off, the engine turns the
\* LED on once, for the display of Connected, and is then idle again with the
\* LED off, and it stays so until another message is sent.
C10_ConnectedScenario ==
  scene # <<>>
    => /\ Len(scene) <= Len(ConnectedScene)
       /\ scene = SubSeq(ConnectedScene, 1, Len(scene))
       /\ Len(scene) = Len(ConnectedScene)
            => /\ Idle
               /\ led_hw = "led_off"
               /\ ~ENABLED ProcessGet

\* The two messages were applied and the engine is idle again.
C10_Witness ==
  /\ scene = ConnectedScene
  /\ led_hw = "led_off"
  /\ msg = ToggleMsg(PATTERN_CONNECTED, PATTERN_UNKNOWN)

(***************************************************************************)
(* Recovery after a drop                                                   *)
(***************************************************************************)
\* The engine's state for adapter a is what the adapter last sent.
Agrees(a) ==
  IF a = "usb"
  THEN led_default_color = (IF usb_current_powered THEN COLOR_ON ELSE COLOR_OFF)
  ELSE IF a = "conn"
  THEN \A p \in {PATTERN_ADVERTISING, PATTERN_CONNECTED} :
         BitIsSet(led_current_patterns, p) <=> current_connectivity_pattern = p
  ELSE \A p \in {PATTERN_BATT_30, PATTERN_BATT_20, PATTERN_BATT_10} :
         BitIsSet(led_current_patterns, p) <=> current_battery_pattern = p

\* C5: when a message of an adapter was dropped, and the adapter has since
\* enqueued the message of its next change, and the engine has applied all
\* that was queued, the engine's state for the adapter agrees with the
\* adapter's last-known value.
C5_RecoveryAfterDrop ==
  \A a \in Adapters :
    (sync[a] = "resent" /\ led_msgq = <<>> /\ indeterminate = 0) => Agrees(a)

(***************************************************************************)
(* The LED                                                                 *)
(***************************************************************************)
\* C8: the driver is called only when the level asked for differs from the
\* cached one, and two calls of the driver in a row are never both led_on or
\* both led_off.
C8_EdgeTriggered ==
  [][led_hw_n' # led_hw_n
       => /\ led_current_color' # led_current_color
          /\ led_hw' # led_hw]_vars

(***************************************************************************)
(* What the engine applies                                                 *)
(***************************************************************************)
\* C11: every message the engine applies is the one at the head of the queue,
\* which it removes; so the messages applied are the messages enqueued, in
\* their order, each once.
C11_FifoApplication ==
  [][ProcessGet
       => /\ led_msgq # <<>>
          /\ msg' = Head(led_msgq)
          /\ led_msgq' = Tail(led_msgq)]_vars

\* C13: a pass of the loop that finds the queue empty leaves
\* led_current_patterns and led_default_color as they are, and displays the
\* pattern it displayed before.
C13_OnlyDequeued ==
  [][(ProcessGet /\ led_msgq = <<>>)
       => /\ UNCHANGED <<led_current_patterns, led_default_color, pattern_index>>
          /\ eng_pc' # "get"]_vars

(***************************************************************************)
(* Preemption                                                              *)
(***************************************************************************)
\* C12 as stated: the pass of the loop that follows the enqueueing, during a
\* display, of a toggle asserting a condition above the one displayed,
\* displays that condition or one above it.
C12_AsStated ==
  [][(ProcessGet /\ preempt # <<>> /\ preempt[2] >= 0)
       => /\ pattern_index' >= preempt[1]
          /\ eng_pc' # "get"]_vars

\* C12: the pass of the loop that dequeues the toggle, which is the next
\* pass when the queue was empty and one pass later for every message that
\* was queued before it, leaves the asserted condition active and gives
\* display_pattern its index or a higher one; the passes before it apply the
\* messages queued before it.
C12_PreemptionLatency ==
  [][(ProcessGet /\ preempt # <<>> /\ preempt[2] >= 0)
       => /\ led_msgq # <<>>
          /\ IF preempt[2] = 0
             THEN /\ msg'.type = MESSAGE_PATTERN_SWAP
                  /\ msg'.pattern_on = preempt[1]
                  /\ BitIsSet(led_current_patterns', preempt[1])
                  /\ pattern_index' >= preempt[1]
                  /\ (pattern_index' < NumPatterns) => eng_pc' = "on"
             ELSE msg' = Head(led_msgq)]_vars

\* Advertising was asserted while a battery pattern was displayed, and the
\* pass that dequeued the toggle displays Advertising.
C12_Witness ==
  /\ preempt = <<PATTERN_ADVERTISING, -1>>
  /\ pattern_index = PATTERN_ADVERTISING
  /\ eng_pc = "on"
  /\ \E p \in {PATTERN_BATT_30, PATTERN_BATT_20, PATTERN_BATT_10} :
       BitIsSet(led_current_patterns, p)

(***************************************************************************)
(* The display of one pattern                                              *)
(***************************************************************************)
\* The intervals of one display of the pattern at `index` over the base
\* colour `base`: `times` intervals at the inverse colour, one at the base
\* colour between every two of them, and the rest interval at the end.
ExpectedRender(index, base) ==
  LET p == PATTERNS[index + 1]
      inverse == IF base = COLOR_ON THEN COLOR_OFF ELSE COLOR_ON
  IN [k \in 1 .. (2 * p.times) |->
        IF k = 2 * p.times THEN Interval(base, "INTERVAL_MS")
        ELSE IF k % 2 = 1 THEN Interval(inverse, p.duration_ms)
        ELSE Interval(base, p.sleep_ms)]

\* C14: the calls of set_led in one display_pattern are, in order, the
\* intervals of ExpectedRender for the pattern and the base colour, all of
\* them by the time the thread returns to k_msgq_get; and while the engine
\* is in display_pattern no message leaves the queue and
\* led_current_patterns, led_default_color and the pattern do not change.
C14_RenderSequence ==
  /\ [][(Displaying /\ render' # render)
          => LET expected == ExpectedRender(pattern_index, led_default_color)
             IN /\ Len(render') <= Len(expected)
                /\ \A k \in 1 .. Len(render') :
                     /\ render'[k].color = expected[k].color
                     /\ render'[k].duration_ms = expected[k].duration_ms
                /\ eng_pc' = "get" => Len(render') = Len(expected)]_vars
  /\ [][(Displaying /\ eng_pc' # eng_pc) => Len(render') = Len(render) + 1]_vars
  /\ [][Displaying
          => /\ UNCHANGED <<led_current_patterns, led_default_color, pattern_index, msg>>
             /\ Len(led_msgq') >= Len(led_msgq)]_vars

\* Battery-30 was displayed over the colour off: three blinks, two gaps and
\* the rest.
C14_Witness ==
  /\ eng_pc = "get"
  /\ pattern_index = PATTERN_BATT_30
  /\ Len(render) = 6
  /\ \A k \in 1 .. 6 :
       /\ render[k].color = ExpectedRender(PATTERN_BATT_30, COLOR_OFF)[k].color
       /\ render[k].duration_ms = ExpectedRender(PATTERN_BATT_30, COLOR_OFF)[k].duration_ms

(***************************************************************************)
(* The LED at the top of the loop                                          *)
(***************************************************************************)
\* C15: whenever led_process_thread is at k_msgq_get the level last given to
\* set_led is led_default_color.
C15_IdleShowsBase == (eng_pc = "get") => led_current_color = led_default_color

(***************************************************************************)
(* The range of led_current_patterns                                       *)
(***************************************************************************)
\* C16: led_current_patterns has only bits of the five conditions, and a
\* pattern index that display_pattern is given is within PATTERNS.
C16_ActiveSetRange ==
  /\ \A b \in 0 .. 7 : BitIsSet(led_current_patterns, b) => b \in Conditions
  /\ Displaying => pattern_index < NumPatterns
  /\ led_current_patterns # 0 => pattern_index \in Conditions

(***************************************************************************)
(* The engine and the adapters                                             *)
(***************************************************************************)
\* C18: when no message was ever dropped and the queue is empty, the
\* conditions active in the engine are the last-known conditions of the
\* connectivity and battery adapters, and led_default_color is on exactly
\* when usb_current_powered.
C18_Agreement ==
  ((\A a \in Adapters : sync[a] = "clean") /\ led_msgq = <<>>)
    => /\ \A a \in Adapters : Agrees(a)
       /\ \A b \in 0 .. 7 : BitIsSet(led_current_patterns, b) => b \in Conditions

(***************************************************************************)
(* USB power across the boot                                               *)
(***************************************************************************)
\* C19: once initialized is set and the queue is empty, usb_current_powered
\* is the USB power state and led_default_color shows it (here: when no
\* message of the power adapter was dropped and no indeterminate message
\* was read).
C19_NoPowerChangeLost ==
  (initialized /\ led_msgq = <<>> /\ sync["usb"] = "clean" /\ indeterminate = 0)
    => /\ usb_current_powered = usb_powered
       /\ led_default_color = (IF usb_powered THEN COLOR_ON ELSE COLOR_OFF)

(***************************************************************************)
(* The boot: led_process_thread and led_init_thread are scheduled fairly,  *)
(* and the delayed work expires; no event arrives.                         *)
(***************************************************************************)
BootNext ==
  \/ ProcessStart
  \/ InitThreadUsb
  \/ InitThreadConnectivity
  \/ InitThreadBattery
  \/ InitThreadDone
  \/ WorkExpires
  \/ ProcessGet
  \/ ProcessOn
  \/ ProcessGap
  \/ ProcessRest

BootSpec ==
  /\ Init
  /\ [][BootNext]_vars
  /\ WF_vars(ProcessStart)
  /\ WF_vars(InitThreadUsb)
  /\ WF_vars(InitThreadConnectivity)
  /\ WF_vars(InitThreadBattery)
  /\ WF_vars(InitThreadDone)

\* C17: led_init_thread sets initialized in the end, whatever the battery
\* reads; indicate_battery polls again 10 times at most, only after a
\* reading of 0 and without a message, goes on to set_battery_level at the
\* first nonzero reading, and a reading of 0 never enqueues a message.
C17_InitTerminates ==
  /\ <>initialized
  /\ [](retry <= BATTERY_RETRIES)
  /\ [][/\ (retry' = retry + 1)
             => /\ InitBattery(0)
                /\ UNCHANGED <<led_msgq, current_battery_pattern>>
        /\ InitBattery(0) => UNCHANGED <<led_msgq, current_battery_pattern>>
        /\ \A level \in SystemBattLevels \ {0} :
             InitBattery(level) => init_pc' = "flag"
        /\ (InitBattery(0) /\ retry = BATTERY_RETRIES) => init_pc' = "flag"]_vars

\* The battery read 0 at the first read and at all 10 polls: indicate_battery
\* polls no more, no battery message was enqueued, initialized is not yet set.
C17_Witness ==
  /\ init_pc = "poll"
  /\ retry = BATTERY_RETRIES
  /\ ~initialized
  /\ current_battery_pattern = PATTERN_UNKNOWN
  /\ \A k \in 1 .. Len(led_msgq) :
       ~(led_msgq[k].type = MESSAGE_PATTERN_SWAP
           /\ led_msgq[k].pattern_on \in {PATTERN_BATT_30, PATTERN_BATT_20, PATTERN_BATT_10})

(***************************************************************************)
(* Progress of the engine: led_process_thread is scheduled fairly, and the *)
(* producers put MaxEvents messages in the queue, at any moments, and then *)
(* stop.                                                                   *)
(***************************************************************************)
Produce ==
  \E m \in AdapterMsgs :
    /\ Deliver
    /\ led_msgq' = k_msgq_put(led_msgq, m)
    /\ UNCHANGED <<role, usb_powered, initialized, adapterVars, work_pending,
                   initVars, engVars, ledVars>>
    /\ scene' = <<>>
    /\ UNCHANGED <<sync, burst, fed, scen, preempt, render>>

ProgressNext == Produce \/ ProcessGet \/ ProcessOn \/ ProcessGap \/ ProcessRest

ProgressSpec ==
  /\ BootedInit
  /\ [][ProgressNext]_vars
  /\ WF_vars(ProcessGet)
  /\ WF_vars(ProcessOn)
  /\ WF_vars(ProcessGap)
  /\ WF_vars(ProcessRest)

\* The engine waits in k_msgq_get(K_FOREVER) with the LED at the base colour.
IdleAtBase ==
  /\ eng_pc = "get"
  /\ led_msgq = <<>>
  /\ led_current_patterns = 0
  /\ led_current_color = led_default_color

\* C20: under fair scheduling of led_process_thread every message in the
\* queue is taken from it in the end, whether or not a pattern is being
\* displayed, and the pass that takes a message applies that message; once
\* the producers have stopped, the queue is empty and no condition is
\* active, the engine is in the end idle for good, the LED at the base colour.
C20_Progress ==
  /\ \A n \in 1 .. MsgqMaxMsgs :
       (Len(led_msgq) = n) ~> (Len(led_msgq) < n)
  /\ (Displaying /\ led_msgq # <<>>) ~> (led_msgq = <<>>)
  /\ [][(Len(led_msgq') < Len(led_msgq))
          => LET st == ApplyMsg(Head(led_msgq), led_default_color, led_current_patterns)
             IN /\ led_msgq' = Tail(led_msgq)
                /\ msg' = Head(led_msgq)
                /\ led_default_color' = st.color
                /\ led_current_patterns' = st.patterns]_vars
  /\ [](((events = MaxEvents) /\ led_msgq = <<>> /\ led_current_patterns = 0)
          => <>[]IdleAtBase)

\* The producers have stopped; their last message, put in the queue during
\* the display of the 30 % battery pattern, retracted that condition, was
\* taken and applied, and the engine is idle with the LED at the base colour.
C20_Witness ==
  /\ events = MaxEvents
  /\ msg = PatternSwapMsg(PATTERN_BATT_30, PATTERN_UNKNOWN)
  /\ pattern_index = PATTERN_BATT_30
  /\ i > 0
  /\ indeterminate = 0
  /\ IdleAtBase

====
